---- MODULE Spec2Model ----
(***************************************************************************)
(* Block device emulated on standard files (emubd/lfs_emubd.c).            *)
(*                                                                         *)
(* The host directory is a map from child names to file contents.  A      *)
(* per-block artifact is a sequence of bytes, the info and stats artifacts *)
(* are sequences of words (the binary image of the struct).  Every handler *)
(* of the source is one action; the walks over blocks are RECURSIVE        *)
(* operators that follow the while loops of the source step by step.       *)
(* The file store is the reliable collaborator of the specification: its   *)
(* calls fail only for the reasons the program itself can cause (ENOENT,   *)
(* EEXIST).                                                                *)
(***************************************************************************)
EXTENDS Integers, Sequences, FiniteSets, TLC

VARIABLES
    info,      \* emu->info : geometry held by the handle
    stats,     \* emu->stats: counters held by the handle
    handle,    \* "none" | "open" | "failed": state of the lfs_emubd_t
    dir,       \* whether the base directory exists
    disk,      \* child name -> contents, the files of the base directory
    last,      \* the call whose result the caller holds: arguments, result, out
               \* buffer; op = "none" once the caller has consumed it
    pre,       \* ghost: disk and counters right before that call
    written,   \* ghost: blocks whose artifact some prog call wrote a byte to
    synced,    \* ghost: geometry and counters at the last successful sync
    loaded,    \* ghost: the counters as the last successful create loaded them
    oks,       \* ghost: successful read, prog and erase calls since that create
    nio,       \* ghost: number of read, prog and erase calls made so far
    nsync,     \* ghost: number of sync and destroy calls made so far
    child,     \* emu->child: the child name held by the one path buffer
    th,        \* per caller: position inside its call and the call's locals
    nopen,     \* FILE handles opened and not yet passed to fclose
    lastfs,    \* ghost: the last file store call that took the path buffer
    mode       \* how the callers and the file store behave in this run

\* the state of the handle and the history of whole calls
avars == <<info, stats, handle, dir, disk, last, pre, written, synced, loaded,
           oks, nio, nsync>>

\* the state of calls in progress
svars == <<child, th, nopen, lastfs, mode>>

vars == <<info, stats, handle, dir, disk, last, pre, written, synced, loaded,
          oks, nio, nsync, child, th, nopen, lastfs, mode>>

---------------------------------------------------------------------------
\* Bounds of the exploration.
MaxIo    == 2
MaxSync  == 1
MaxBlock == 2
MaxOff   == 6
MaxSize  == 8

\* Configuration macros consumed by lfs_emubd_create, scaled down so that
\* whole files fit in a state: 3 blocks of 4 bytes, granularity 2.
LFS_EMUBD_READ_SIZE  == 2
LFS_EMUBD_PROG_SIZE  == 2
LFS_EMUBD_ERASE_SIZE == 4
LFS_EMUBD_TOTAL_SIZE == 12

\* errno values used by the program.
ENOENT == 2
EIO    == 5
EEXIST == 17
EINVAL == 22

\* Arguments the callers pass: every block index up to MaxBlock, every even
\* offset and size up to the bound (the multiples of the granularities) and
\* the odd value 1 (the misaligned case).
Blocks == 0..MaxBlock
Offs   == {o \in 0..MaxOff : o % 2 = 0 \/ o = 1}
Sizes  == {z \in 0..MaxSize : z % 2 = 0 \/ z = 1}

---------------------------------------------------------------------------
\* Child names.  A name is a sequence of characters.

\* "%x": lowercase hexadecimal, no fixed width, no prefix
HexDigits == <<"0","1","2","3","4","5","6","7","8","9","a","b","c","d","e","f">>

RECURSIVE Hex(_)
Hex(n) == IF n < 16 THEN <<HexDigits[n + 1]>>
          ELSE Append(Hex(n \div 16), HexDigits[(n % 16) + 1])

\* variant of InfoName: the geometry record is stored under a name that is
\* also the hexadecimal index of a block
InfoNameHex == <<"1">>

\* snprintf(emu->child, LFS_NAME_MAX, "info") and "stats"
InfoName  == <<"i","n","f","o">>
StatsName == <<"s","t","a","t","s">>

\* lfs_min on lfs_size_t
lfs_min(a, b) == IF a < b THEN a ELSE b

Max(a, b) == IF a > b THEN a ELSE b

\* lfs_min(emu->info.erase_size - off, size) on unsigned 32 bit operands.
\* When off > erase_size the difference wraps to 2^32 - (off - erase_size),
\* which is larger than every size below 2^31, so the minimum is size.
WalkCount(es, off, size) ==
    IF off <= es THEN lfs_min(es - off, size) ELSE size

---------------------------------------------------------------------------
\* Buffers.

\* the caller's buffer before the call: size bytes of arbitrary content
CallerBuf(size) == [i \in 1..size |-> 170]

\* the bytes a caller programs: nonzero, distinct per position of the buffer
Data(size) == [i \in 1..size |-> (16 + i) % 256]

\* variant of ZeroBuf: the memset is missing, the buffer keeps its content
ZeroBufMissing(size) == [i \in 1..size |-> 170]

\* memset(data, 0, size)
ZeroBuf(size) == [i \in 1..size |-> 0]

\* variant of Store: the data pointer is never advanced
StoreAtStart(buf, pos, src) ==
    [i \in 1..Len(buf) |-> IF i <= Len(src) THEN src[i] ELSE buf[i]]

\* fread(data, ...) with data advanced by pos: stores src at position pos
\* (0-based) of buf
Store(buf, pos, src) ==
    [i \in 1..Len(buf) |->
        IF i > pos /\ i <= pos + Len(src) THEN src[i - pos] ELSE buf[i]]

---------------------------------------------------------------------------
\* Validation (the first statement of read, prog and erase).

\* variant of Aligned: the alignment test is missing
AlignedAlways(x, gran) == TRUE

Aligned(x, gran) == x % gran = 0

\* variant of InBounds: a range may end exactly at total_size
InBoundsInclusive(inf, block, off, size) ==
    block * inf.erase_size + off + size <= inf.total_size

\* (uint64_t)block*erase_size + off + size < total_size
InBounds(inf, block, off, size) ==
    block * inf.erase_size + off + size < inf.total_size

Valid(inf, gran, block, off, size) ==
    /\ Aligned(off, gran)
    /\ Aligned(size, gran)
    /\ InBounds(inf, block, off, size)

---------------------------------------------------------------------------
\* File store primitives on the contents of one file.

\* fseek(f, off) then fread(data, 1, count, f): the bytes before end of file
FileRead(file, off, count) ==
    IF off >= Len(file) THEN <<>>
    ELSE SubSeq(file, off + 1, lfs_min(off + count, Len(file)))

\* fseek(f, off) then fwrite(src, 1, Len(src), f): a hole reads as zero
FileWrite(file, off, src) ==
    [i \in 1..Max(Len(file), off + Len(src)) |->
        IF i > off /\ i <= off + Len(src) THEN src[i - off]
        ELSE IF i <= Len(file) THEN file[i]
        ELSE 0]

\* variant of ProgOpen: the artifact is always opened with "w+b" (truncated)
ProgOpenTruncate(d, name) == <<>>

\* fopen(path, "r+b"), and fopen(path, "w+b") when that fails with ENOENT:
\* the contents the stream starts with
ProgOpen(d, name) == IF name \in DOMAIN d THEN d[name] ELSE <<>>

\* unlink(path) of an existing file
Unlink(d, name) == [n \in (DOMAIN d) \ {name} |-> d[n]]

\* the file name now holds contents
Put(d, name, contents) ==
    [n \in (DOMAIN d) \cup {name} |-> IF n = name THEN contents ELSE d[n]]

---------------------------------------------------------------------------
\* Binary images of the two records (fwrite / fread of the struct).

InfoImage(inf) == <<inf.read_size, inf.prog_size, inf.erase_size, inf.total_size>>

\* variant of StatsImage: two fields written in the wrong order
StatsImageSwapped(st) == <<st.read_count, st.erase_count, st.prog_count>>

StatsImage(st) == <<st.read_count, st.prog_count, st.erase_count>>

StatsWords == Len(StatsImage([read_count |-> 0, prog_count |-> 0, erase_count |-> 0]))

\* fread(&emu->stats, sizeof(emu->stats), 1, f): the words the file holds
\* overwrite the struct front to back, the rest keeps its value
StatsLoad(file, st) ==
    [read_count  |-> IF Len(file) >= 1 THEN file[1] ELSE st.read_count,
     prog_count  |-> IF Len(file) >= 2 THEN file[2] ELSE st.prog_count,
     erase_count |-> IF Len(file) >= 3 THEN file[3] ELSE st.erase_count]

\* number of whole records fread returns
StatsRead(file) == IF Len(file) >= StatsWords THEN 1 ELSE 0

ZeroStats == [read_count |-> 0, prog_count |-> 0, erase_count |-> 0]
ZeroInfo  == [read_size |-> 0, prog_size |-> 0, erase_size |-> 0, total_size |-> 0]

\* emu->info as set up from the configuration
ConfigInfo ==
    [read_size  |-> LFS_EMUBD_READ_SIZE,
     prog_size  |-> LFS_EMUBD_PROG_SIZE,
     erase_size |-> LFS_EMUBD_ERASE_SIZE,
     total_size |-> LFS_EMUBD_TOTAL_SIZE]

\* variant of Bump: every operation counts as a read
BumpRead(st, field) == [st EXCEPT !.read_count = @ + 1]

\* emu->stats.<field> += 1
Bump(st, field) == [st EXCEPT ![field] = @ + 1]

---------------------------------------------------------------------------
\* The walks over blocks.  Each follows one while loop of the source; nfs
\* counts the file store calls made.

\* lfs_emubd_read, "Iterate over blocks until enough data is read"; visited
\* collects the blocks whose artifact the walk tried to open
RECURSIVE ReadWalk(_, _, _, _, _, _, _, _, _)
ReadWalk(d, inf, block, off, size, buf, pos, nfs, visited) ==
    IF size = 0 THEN [buf |-> buf, nfs |-> nfs, visited |-> visited]
    ELSE LET name  == Hex(block)
             count == WalkCount(inf.erase_size, off, size)
         IN  IF name \in DOMAIN d
             THEN ReadWalk(d, inf, block + 1, 0, size - count,
                           Store(buf, pos, FileRead(d[name], off, count)),
                           pos + count, nfs + 4, visited \cup {block})
             ELSE ReadWalk(d, inf, block + 1, 0, size - count,
                           buf, pos + count, nfs + 1, visited \cup {block})

\* lfs_emubd_prog, the loop; opened collects the blocks whose artifact the
\* walk opened, wrote those it wrote at least one byte to
RECURSIVE ProgWalk(_, _, _, _, _, _, _, _, _, _)
ProgWalk(d, inf, block, off, size, data, pos, nfs, opened, wrote) ==
    IF size = 0
    THEN [disk |-> d, nfs |-> nfs, opened |-> opened, wrote |-> wrote]
    ELSE LET name  == Hex(block)
             count == WalkCount(inf.erase_size, off, size)
             src   == SubSeq(data, pos + 1, pos + count)
             file  == FileWrite(ProgOpen(d, name), off, src)
             calls == IF name \in DOMAIN d THEN 4 ELSE 5
         IN  ProgWalk(Put(d, name, file), inf, block + 1, 0, size - count,
                      data, pos + count, nfs + calls, opened \cup {block},
                      IF count > 0 THEN wrote \cup {block} ELSE wrote)

\* lfs_emubd_erase, "Iterate and erase blocks"; visited collects the blocks
\* whose artifact the walk looked at
RECURSIVE EraseWalk(_, _, _, _, _, _, _)
EraseWalk(d, inf, block, off, size, nfs, visited) ==
    IF size = 0 THEN [disk |-> d, nfs |-> nfs, visited |-> visited]
    ELSE LET name == Hex(block)
         IN  IF name \in DOMAIN d
             THEN EraseWalk(Unlink(d, name), inf, block + 1, 0,
                            size - inf.erase_size, nfs + 2,
                            visited \cup {block})
             ELSE EraseWalk(d, inf, block + 1, 0,
                            size - inf.erase_size, nfs + 1,
                            visited \cup {block})

---------------------------------------------------------------------------
\* The operations as functions of the state they read.

lfs_emubd_read(d, inf, st, block, off, size) ==
    IF ~Valid(inf, inf.read_size, block, off, size)
    THEN [ret |-> -EINVAL, buf |-> CallerBuf(size), stats |-> st, nfs |-> 0,
          blocks |-> {}]
    ELSE LET w == ReadWalk(d, inf, block, off, size, ZeroBuf(size), 0, 0, {})
         IN  [ret |-> 0, buf |-> w.buf, stats |-> Bump(st, "read_count"),
              nfs |-> w.nfs, blocks |-> w.visited]

lfs_emubd_prog(d, inf, st, block, off, size, data) ==
    IF ~Valid(inf, inf.prog_size, block, off, size)
    THEN [ret |-> -EINVAL, disk |-> d, stats |-> st, nfs |-> 0, blocks |-> {},
          wrote |-> {}]
    ELSE LET w == ProgWalk(d, inf, block, off, size, data, 0, 0, {}, {})
         IN  [ret |-> 0, disk |-> w.disk, stats |-> Bump(st, "prog_count"),
              nfs |-> w.nfs, blocks |-> w.opened, wrote |-> w.wrote]

lfs_emubd_erase(d, inf, st, block, off, size) ==
    IF ~Valid(inf, inf.erase_size, block, off, size)
    THEN [ret |-> -EINVAL, disk |-> d, stats |-> st, nfs |-> 0, blocks |-> {}]
    ELSE LET w == EraseWalk(d, inf, block, off, size, 0, {})
         IN  [ret |-> 0, disk |-> w.disk, stats |-> Bump(st, "erase_count"),
              nfs |-> w.nfs, blocks |-> w.visited]

\* both fopen(path, "w") / fwrite / fclose of lfs_emubd_sync
lfs_emubd_sync(d, inf, st) ==
    [ret |-> 0,
     disk |-> Put(Put(d, InfoName, InfoImage(inf)), StatsName, StatsImage(st)),
     nfs |-> 6]

\* variant of lfs_emubd_destroy: the path buffer is released without the sync
lfs_emubd_destroy_nosync(d, inf, st) == [disk |-> d, nfs |-> 0]

\* lfs_emubd_destroy: lfs_emubd_sync(emu), its result dropped, and only then
\* free(emu->path)
lfs_emubd_destroy(d, inf, st) ==
    LET r == lfs_emubd_sync(d, inf, st)
    IN  [disk |-> r.disk, nfs |-> r.nfs]

\* values errno may hold after fopen succeeded and fread came up short at end
\* of file.  The stats file exists, so the directory does and mkdir has failed
\* with EEXIST; fopen and fread succeeded, and a library call that succeeds
\* leaves errno alone or stores a nonzero value, never zero.
ShortReadErrno == {EEXIST, EIO}

\* variant of lfs_emubd_create: a missing or short stats file starts the
\* counters from zero
lfs_emubd_create_default(d, e) ==
    IF StatsName \in DOMAIN d /\ StatsRead(d[StatsName]) >= 1
    THEN [ret |-> 0, info |-> ConfigInfo,
          stats |-> StatsLoad(d[StatsName], ZeroStats), nfs |-> 4]
    ELSE [ret |-> 0, info |-> ConfigInfo, stats |-> ZeroStats, nfs |-> 2]

\* lfs_emubd_create from the mkdir on; e: errno at the short fread.  fopen
\* fails with ENOENT when there is no stats file; a short fread returns
\* -errno with the value errno happens to hold.
lfs_emubd_create(d, e) ==
    IF StatsName \notin DOMAIN d
    THEN [ret |-> -ENOENT, info |-> ConfigInfo, stats |-> ZeroStats, nfs |-> 2]
    ELSE IF StatsRead(d[StatsName]) < 1
    THEN [ret |-> -e, info |-> ConfigInfo,
          stats |-> StatsLoad(d[StatsName], ZeroStats), nfs |-> 3]
    ELSE [ret |-> 0, info |-> ConfigInfo,
          stats |-> StatsLoad(d[StatsName], ZeroStats), nfs |-> 4]

---------------------------------------------------------------------------
\* State machine.

NoSync == [valid |-> FALSE, info |-> ZeroInfo, stats |-> ZeroStats]

Call(op, block, off, size, data, ret, buf, nfs, blocks) ==
    [op |-> op, block |-> block, off |-> off, size |-> size, data |-> data,
     ret |-> ret, buf |-> buf, nfs |-> nfs, blocks |-> blocks]

Snapshot == [disk |-> disk, stats |-> stats]

NoCall == Call("none", 0, 0, 0, <<>>, 0, <<>>, 0, {})
NoSnapshot == [disk |-> <<>>, stats |-> ZeroStats]

\* calls on one handle are serialized: the next call starts after the caller
\* has taken the result of the previous one
Idle == last.op = "none"

\* the callers of the handle
Threads == {1, 2}

\* a caller outside any call
IdleThread ==
    [pc |-> "idle", op |-> "none", block |-> 0, off |-> 0, size |-> 0,
     arg |-> [block |-> 0, off |-> 0, size |-> 0], pos |-> 0, count |-> 0,
     f |-> <<>>, own |-> <<>>, ret |-> 0, buf |-> <<>>, data |-> <<>>,
     fault |-> "none", null |-> FALSE, stats0 |-> ZeroStats, open0 |-> 0]

NoFsCall == [t |-> 0, call |-> "none", name |-> <<>>, own |-> <<>>]

\* whole calls only: one call at a time, a file store that does not fail
WholeCalls == [serialized |-> TRUE, faulty |-> FALSE, wide |-> TRUE]

NoCallInProgress ==
    /\ child = <<>>
    /\ th = [t \in Threads |-> IdleThread]
    /\ nopen = 0
    /\ lastfs = NoFsCall
    /\ mode = WholeCalls

\* what the base directory may hold before the first create: nothing (the
\* directory may not even exist), a stats record of an earlier run, or a stats
\* file cut short or empty
InitDisks ==
    { <<>>,
      (StatsName :> <<3, 1, 2>>),
      (StatsName :> <<3>>),
      (StatsName :> <<>>) }

Init ==
    /\ info = ZeroInfo
    /\ stats = ZeroStats
    /\ handle = "none"
    /\ disk \in InitDisks
    /\ dir \in IF disk = <<>> THEN BOOLEAN ELSE {TRUE}
    /\ last = NoCall
    /\ pre = NoSnapshot
    /\ written = {}
    /\ synced = NoSync
    /\ loaded = ZeroStats
    /\ oks = ZeroStats
    /\ nio = 0
    /\ nsync = 0
    /\ NoCallInProgress

Create ==
    /\ Idle
    /\ \E e \in ShortReadErrno :
         LET r == lfs_emubd_create(disk, e)
         IN  /\ info' = r.info
             /\ stats' = r.stats
             /\ handle' = IF r.ret = 0 THEN "open" ELSE "failed"
             /\ loaded' = IF r.ret = 0 THEN r.stats ELSE loaded
             /\ oks' = IF r.ret = 0 THEN ZeroStats ELSE oks
             /\ last' = Call("create", 0, 0, 0, <<>>, r.ret, <<>>, r.nfs, {})
    /\ dir' = TRUE
    /\ pre' = Snapshot
    /\ UNCHANGED <<disk, written, synced, nio, nsync>>
    /\ UNCHANGED svars

Read ==
    /\ Idle
    /\ nio < MaxIo
    /\ handle = "open"
    /\ \E block \in Blocks, off \in Offs, size \in Sizes :
         LET r == lfs_emubd_read(disk, info, stats, block, off, size)
         IN  /\ stats' = r.stats
             /\ oks' = IF r.ret = 0 THEN [oks EXCEPT !.read_count = @ + 1] ELSE oks
             /\ last' = Call("read", block, off, size, <<>>, r.ret, r.buf, r.nfs, r.blocks)
    /\ pre' = Snapshot
    /\ nio' = nio + 1
    /\ UNCHANGED <<info, handle, dir, disk, written, synced, loaded, nsync>>
    /\ UNCHANGED svars

Prog ==
    /\ Idle
    /\ nio < MaxIo
    /\ handle = "open"
    /\ \E block \in Blocks, off \in Offs, size \in Sizes :
         LET data == Data(size)
             r == lfs_emubd_prog(disk, info, stats, block, off, size, data)
         IN  /\ stats' = r.stats
             /\ disk' = r.disk
             /\ written' = written \cup r.wrote
             /\ oks' = IF r.ret = 0 THEN [oks EXCEPT !.prog_count = @ + 1] ELSE oks
             /\ last' = Call("prog", block, off, size, data, r.ret, <<>>, r.nfs, r.blocks)
    /\ pre' = Snapshot
    /\ nio' = nio + 1
    /\ UNCHANGED <<info, handle, dir, synced, loaded, nsync>>
    /\ UNCHANGED svars

Erase ==
    /\ Idle
    /\ nio < MaxIo
    /\ handle = "open"
    /\ \E block \in Blocks, off \in Offs, size \in Sizes :
         LET r == lfs_emubd_erase(disk, info, stats, block, off, size)
         IN  /\ stats' = r.stats
             /\ disk' = r.disk
             /\ oks' = IF r.ret = 0 THEN [oks EXCEPT !.erase_count = @ + 1] ELSE oks
             /\ last' = Call("erase", block, off, size, <<>>, r.ret, <<>>, r.nfs, r.blocks)
    /\ pre' = Snapshot
    /\ nio' = nio + 1
    /\ UNCHANGED <<info, handle, dir, written, synced, loaded, nsync>>
    /\ UNCHANGED svars

Sync ==
    /\ Idle
    /\ nsync < MaxSync
    /\ handle = "open"
    /\ LET r == lfs_emubd_sync(disk, info, stats)
       IN  /\ disk' = r.disk
           /\ last' = Call("sync", 0, 0, 0, <<>>, r.ret, <<>>, r.nfs, {})
    /\ synced' = [valid |-> TRUE, info |-> info, stats |-> stats]
    /\ pre' = Snapshot
    /\ nsync' = nsync + 1
    /\ UNCHANGED <<info, stats, handle, dir, written, loaded, oks, nio>>
    /\ UNCHANGED svars

\* lfs_emubd_destroy: the sync, its result dropped, then free(emu->path)
Destroy ==
    /\ Idle
    /\ nsync < MaxSync
    /\ handle = "open"
    /\ LET r == lfs_emubd_destroy(disk, info, stats)
       IN  /\ disk' = r.disk
           /\ last' = Call("destroy", 0, 0, 0, <<>>, 0, <<>>, r.nfs, {})
    /\ synced' = [valid |-> TRUE, info |-> info, stats |-> stats]
    /\ handle' = "none"
    /\ pre' = Snapshot
    /\ nsync' = nsync + 1
    /\ UNCHANGED <<info, stats, dir, written, loaded, oks, nio>>
    /\ UNCHANGED svars

\* the caller takes the result; the record of the call is dropped
Return ==
    /\ ~Idle
    /\ last' = NoCall
    /\ pre' = NoSnapshot
    /\ UNCHANGED <<info, stats, handle, dir, disk, written, synced, loaded, oks,
                   nio, nsync>>
    /\ UNCHANGED svars

Next == Create \/ Read \/ Prog \/ Erase \/ Sync \/ Destroy \/ Return

Spec == Init /\ [][Next]_vars

---------------------------------------------------------------------------
\* Properties.

IoOps == {"read", "prog", "erase"}

\* what a read of (block, off, size) returns from directory d
ReadOf(d, block, off, size) == lfs_emubd_read(d, info, stats, block, off, size)

ReadAccepts(block, off, size) ==
    /\ off % info.read_size = 0
    /\ size % info.read_size = 0
    /\ block * info.erase_size + off + size < info.total_size

\* C1: after a successful prog(block, off, size, data), the read(block, off,
\* size) that follows it on the same handle, when it passes validation,
\* returns 0 and fills the buffer with exactly data, also when the range
\* spans several blocks.
C1_ReadAfterProg ==
    ( /\ last.op = "prog" /\ last.ret = 0
      /\ ReadAccepts(last.block, last.off, last.size) )
    => LET r == ReadOf(disk, last.block, last.off, last.size)
       IN  r.ret = 0 /\ r.buf = last.data

\* a prog of a range that spans three blocks has returned
C1_Witness ==
    /\ last.op = "prog" /\ last.ret = 0
    /\ last.block = 0 /\ last.off = 2 /\ last.size = 8
    /\ last.blocks = {0, 1, 2}
    /\ ReadOf(disk, 0, 2, 8).buf = Data(8)
    /\ pre.disk # <<>>

\* C2: a successful prog of a sub-range [off, off+size) of one block whose
\* artifact already exists: every byte of that block outside the sub-range
\* reads back as before the call.
C2_PartialProgPreserves ==
    ( /\ last.op = "prog" /\ last.ret = 0
      /\ last.size > 0
      /\ last.off + last.size <= info.erase_size
      /\ Hex(last.block) \in DOMAIN pre.disk )
    => \A o \in Offs, z \in Sizes :
         (ReadAccepts(last.block, o, z) /\ o + z <= info.erase_size)
         => \A i \in 1..z :
              (o + i - 1 < last.off \/ o + i - 1 >= last.off + last.size)
              => ReadOf(disk, last.block, o, z).buf[i]
                   = ReadOf(pre.disk, last.block, o, z).buf[i]

\* the second half of a block was programmed while the first half held data
C2_Witness ==
    /\ last.op = "prog" /\ last.ret = 0
    /\ last.block = 1 /\ last.off = 2 /\ last.size = 2
    /\ Hex(1) \in DOMAIN pre.disk
    /\ ReadOf(pre.disk, 1, 0, 4).buf = Data(4)
    /\ ReadOf(disk, 1, 0, 4).buf = Data(2) \o Data(2)

\* the granularity an operation validates against
Gran(op) == IF op = "read" THEN info.read_size
            ELSE IF op = "prog" THEN info.prog_size
            ELSE info.erase_size

\* the blocks with a byte in the linear address range of a call
LinearBlocks(c) ==
    LET start == c.block * info.erase_size + c.off
    IN  { b \in 0..(info.total_size \div info.erase_size) :
            /\ b * info.erase_size < start + c.size
            /\ (b + 1) * info.erase_size > start }

AllZero(buf, size) == Len(buf) = size /\ \A i \in 1..size : buf[i] = 0

\* C3: after a successful erase whose address range covers block b, a read of
\* block b's full range (offset 0, size erase_size) returns 0 and all-zero
\* bytes, whatever was programmed before.
C3_EraseReadsZero ==
    (last.op = "erase" /\ last.ret = 0)
    => \A b \in LinearBlocks(last) :
         LET r == ReadOf(disk, b, 0, info.erase_size)
         IN  r.ret = 0 /\ AllZero(r.buf, info.erase_size)

\* C4: with no block artifacts at the start, a read that passes validation
\* and walks only over blocks no prog call has written a byte to returns 0
\* and all-zero bytes: a missing artifact, or an artifact shorter than the
\* range read, is not an error.
C4_UnwrittenReadsZero ==
    ( /\ last.op = "read"
      /\ ReadAccepts(last.block, last.off, last.size)
      /\ last.blocks \cap written = {} )
    => (last.ret = 0 /\ AllZero(last.buf, last.size))

\* a prog at off = erase_size created the artifact of block 0 without writing
\* to it and wrote block 1; block 0 then reads as zeros
C4_Witness ==
    /\ last.op = "read" /\ last.ret = 0
    /\ last.block = 0 /\ last.off = 0 /\ last.size = 4
    /\ last.blocks = {0}
    /\ written = {1}
    /\ Hex(0) \in DOMAIN disk /\ Hex(1) \in DOMAIN disk
    /\ AllZero(last.buf, 4)

\* C5: a read, prog or erase whose offset or size is not a multiple of its
\* granularity returns -EINVAL, makes no file store call and leaves the
\* counters and every file unchanged.
C5_MisalignedRejected ==
    ( /\ last.op \in IoOps
      /\ (last.off % Gran(last.op) # 0 \/ last.size % Gran(last.op) # 0) )
    => /\ last.ret = -EINVAL
       /\ last.nfs = 0
       /\ stats = pre.stats
       /\ disk = pre.disk

\* a misaligned prog inside the device, over an existing artifact, was rejected
C5_Witness ==
    /\ last.op = "prog" /\ last.ret = -EINVAL
    /\ last.block = 0 /\ last.off = 1 /\ last.size = 2
    /\ Hex(0) \in DOMAIN disk
    /\ disk = pre.disk

\* C6: a read, prog or erase with block*erase_size + off + size >= total_size
\* returns -EINVAL, also when the range ends exactly at total_size.
C6_BoundsRejected ==
    ( /\ last.op \in IoOps
      /\ last.block * info.erase_size + last.off + last.size >= info.total_size )
    => last.ret = -EINVAL

\* an aligned call for the whole last block, ending exactly at total_size
C6_Witness ==
    /\ last.op = "read" /\ last.ret = -EINVAL
    /\ last.off = 0 /\ last.size = info.erase_size
    /\ (last.block + 1) * info.erase_size = info.total_size

\* C7: on an open handle each counter equals its value at create plus the
\* number of calls of its kind that returned 0; a call over several blocks
\* counts once, a failed call not at all.
C7_CountersExact ==
    handle = "open"
    => /\ stats.read_count  = loaded.read_count  + oks.read_count
       /\ stats.prog_count  = loaded.prog_count  + oks.prog_count
       /\ stats.erase_count = loaded.erase_count + oks.erase_count

\* a rejected call, then a prog over three blocks: one more prog, nothing else
C7_Witness ==
    /\ last.op = "prog" /\ last.ret = 0
    /\ last.blocks = {0, 1, 2}
    /\ nio = 2
    /\ oks = [read_count |-> 0, prog_count |-> 1, erase_count |-> 0]
    /\ stats = [pre.stats EXCEPT !.prog_count = @ + 1]
    /\ stats.prog_count = loaded.prog_count + 1

\* C8: a create that succeeds after a successful sync on the same directory
\* yields the geometry and the counters the handle held at that sync.
C8_SyncCreateRoundTrip ==
    (last.op = "create" /\ last.ret = 0 /\ synced.valid)
    => (info = synced.info /\ stats = synced.stats)

\* the counters moved between the first create and the sync
C8_Witness ==
    /\ last.op = "create" /\ last.ret = 0 /\ synced.valid
    /\ stats = synced.stats
    /\ stats.prog_count = 2 /\ stats.read_count = 4 /\ stats.erase_count = 2

\* C9: create returns a nonzero value whenever the stats file is absent or
\* shorter than one record; it never succeeds with counters reset to zero.
C9_CreateFailsWithoutStats ==
    ( /\ last.op = "create"
      /\ \/ StatsName \notin DOMAIN pre.disk
         \/ Len(pre.disk[StatsName]) < 3 )
    => (last.ret # 0 /\ handle # "open")

\* create met a stats file cut short
C9_Witness ==
    /\ last.op = "create"
    /\ StatsName \in DOMAIN pre.disk
    /\ Len(pre.disk[StatsName]) = 1
    /\ last.ret # 0

\* C10: a successful erase deletes the artifact of every block in the linear
\* range [block*erase_size + off, block*erase_size + off + size) and leaves
\* the artifacts of all other blocks as they were.
C10_EraseExactBlocks ==
    (last.op = "erase" /\ last.ret = 0)
    => \A b \in 0..(info.total_size \div info.erase_size) :
         IF b \in LinearBlocks(last)
         THEN Hex(b) \notin DOMAIN disk
         ELSE /\ (Hex(b) \in DOMAIN disk) = (Hex(b) \in DOMAIN pre.disk)
              /\ Hex(b) \in DOMAIN disk => disk[Hex(b)] = pre.disk[Hex(b)]

\* the names of the per-block artifacts of directory d
BlockNames(d) == (DOMAIN d) \ {InfoName, StatsName}

\* C13: destroy runs the full sync before it releases the handle: on a file
\* store that does not fail, the info and stats artifacts after destroy hold
\* the geometry and the counters the handle held at the destroy, every
\* successful call since the last sync included.
C13_DestroySyncs ==
    last.op = "destroy"
    => /\ InfoName \in DOMAIN disk /\ disk[InfoName] = InfoImage(info)
       /\ StatsName \in DOMAIN disk /\ disk[StatsName] = StatsImage(stats)
       /\ handle = "none"

\* two successful calls moved the counters past the persisted record, then
\* destroy wrote them out
C13_Witness ==
    /\ last.op = "destroy"
    /\ oks.prog_count = 1 /\ oks.erase_count = 1
    /\ pre.disk[StatsName] # StatsImage(stats)
    /\ InfoName \notin DOMAIN pre.disk
    /\ disk[StatsName] = StatsImage(stats)
    /\ disk[InfoName] = InfoImage(info)

\* C14: sync (and the sync inside destroy) changes only the artifacts info
\* and stats and leaves every per-block artifact and the counters unchanged;
\* a read, prog or erase opens only artifacts named by the hexadecimal index
\* of a block, which is never info or stats, and leaves info and stats as
\* they were.
C14_NoAlias ==
    /\ last.op \in {"sync", "destroy"}
       => /\ BlockNames(disk) = BlockNames(pre.disk)
          /\ \A n \in BlockNames(disk) : disk[n] = pre.disk[n]
          /\ stats = pre.stats
    /\ last.op \in IoOps
       => /\ \A b \in last.blocks : Hex(b) \notin {InfoName, StatsName}
          /\ \A n \in {InfoName, StatsName} :
                /\ (n \in DOMAIN disk) = (n \in DOMAIN pre.disk)
                /\ n \in DOMAIN disk => disk[n] = pre.disk[n]

\* a sync with block artifacts on disk wrote info and stats and nothing else
C14_Witness ==
    /\ last.op = "sync"
    /\ BlockNames(disk) = {Hex(0), Hex(1)}
    /\ InfoName \notin DOMAIN pre.disk
    /\ disk[InfoName] = InfoImage(info)
    /\ disk[StatsName] # pre.disk[StatsName]

\* C15: every per-block artifact is at most erase_size bytes long, whatever
\* prog calls that pass validation were made.
C15_ArtifactSize ==
    \A n \in BlockNames(disk) : Len(disk[n]) <= info.erase_size

\* linear address of the first byte of a call
Linear(block, off) == block * info.erase_size + off

\* C16: the device is one byte array addressed by block*erase_size + off:
\* after a successful prog, every accepted read (block', off', size') of
\* linear addresses inside the programmed range returns the programmed bytes
\* of those addresses.
C16_FlatArray ==
    (last.op = "prog" /\ last.ret = 0)
    => \A b \in Blocks, o \in Offs, z \in Sizes :
         ( /\ ReadAccepts(b, o, z)
           /\ Linear(b, o) >= Linear(last.block, last.off)
           /\ Linear(b, o) + z <= Linear(last.block, last.off) + last.size )
         => LET r == ReadOf(disk, b, o, z)
                skip == Linear(b, o) - Linear(last.block, last.off)
            IN  r.ret = 0 /\ r.buf = SubSeq(last.data, skip + 1, skip + z)

---------------------------------------------------------------------------
\* The bounds check in machine arithmetic.

\* lfs_block_t, lfs_off_t and lfs_size_t are unsigned integers of one width
\* (32 bits) and uint64_t is twice as wide.  The widths are scaled down and
\* their ratio kept: Width bits for the narrow types, 2 * Width for the wide.
Width == 4
Word32 == 2^Width
Word64 == Word32 * Word32
U32 == 0..(Word32 - 1)

\* variant of Mul64: the product is taken in the narrow type, as if block
\* were not cast before the multiplication
Mul32(a, b) == (a * b) % Word32

\* (uint64_t)a * b
Mul64(a, b) == (a * b) % Word64

\* a + b with a of type uint64_t
Add64(a, b) == (a + b) % Word64

\* (uint64_t)block*emu->info.erase_size + off + size, left to right
BoundsEnd64(inf, block, off, size) ==
    Add64(Add64(Mul64(block, inf.erase_size), off), size)

InBounds64(inf, block, off, size) ==
    BoundsEnd64(inf, block, off, size) < inf.total_size

Valid64(inf, gran, block, off, size) ==
    /\ Aligned(off, gran)
    /\ Aligned(size, gran)
    /\ InBounds64(inf, block, off, size)

\* geometries up to the largest value the narrow type holds
BoundsGeometries ==
    { [read_size |-> 1, prog_size |-> 1, erase_size |-> es, total_size |-> ts] :
        es \in {1, Word32 \div 2, Word32 - 1},
        ts \in {Word32 \div 2, Word32 - 1} }

BoundsInit ==
    /\ info \in BoundsGeometries
    /\ stats = ZeroStats
    /\ handle = "open"
    /\ dir = TRUE
    /\ disk = (StatsName :> StatsImage(ZeroStats))
    /\ last = NoCall
    /\ pre = NoSnapshot
    /\ written = {}
    /\ synced = NoSync
    /\ loaded = ZeroStats
    /\ oks = ZeroStats
    /\ nio = 0
    /\ nsync = 0
    /\ NoCallInProgress

\* the first statement of read, prog and erase on arbitrary arguments
Validate ==
    /\ Idle
    /\ \E op \in IoOps, block \in U32, off \in U32, size \in U32 :
         last' = Call(op, block, off, size, <<>>,
                      IF Valid64(info, Gran(op), block, off, size)
                      THEN 0 ELSE -EINVAL,
                      <<>>, 0, {})
    /\ UNCHANGED <<info, stats, handle, dir, disk, pre, written, synced,
                   loaded, oks, nio, nsync>>
    /\ UNCHANGED svars

BoundsNext == Validate

BoundsSpec == BoundsInit /\ [][BoundsNext]_vars

\* C18: the end address block*erase_size + off + size computed by the
\* validation equals its value over the unbounded integers (no step of the
\* wide arithmetic wraps), so a call whose true end address is not below
\* total_size is rejected by read, prog and erase.
C18_BoundsNoWrap ==
    last.op \in IoOps
    => LET end == last.block * info.erase_size + last.off + last.size
       IN  /\ BoundsEnd64(info, last.block, last.off, last.size) = end
           /\ end >= info.total_size => last.ret = -EINVAL

\* all four operands at the largest value of the narrow type: the end
\* address is the largest value of the wide type
C18_Witness ==
    /\ last.op = "erase" /\ last.ret = -EINVAL
    /\ info.erase_size = Word32 - 1
    /\ last.block = Word32 - 1 /\ last.off = Word32 - 1
    /\ last.size = Word32 - 1
    /\ last.block * info.erase_size >= Word32
    /\ BoundsEnd64(info, last.block, last.off, last.size) = Word64 - 1

---------------------------------------------------------------------------
\* Calls in progress.  A call is followed statement by statement: one step
\* per file store call, so that a failure of that call, and a step of
\* another caller between two steps, have a place to happen.

\* one call at a time, on a file store whose calls may fail
FaultyStore == [serialized |-> TRUE, faulty |-> TRUE, wide |-> TRUE]

\* two callers, with or without serialization, with whole-block arguments
RaceModes ==
    { [serialized |-> z, faulty |-> FALSE, wide |-> FALSE] : z \in BOOLEAN }

Others(t) == Threads \ {t}

\* variant of CanStart: nothing keeps two calls on the handle apart
CanStartAlways(t) == TRUE

\* when the callers serialize, a call starts only while no other call is in
\* progress
CanStart(t) ==
    mode.serialized => \A u \in Others(t) : th[u].pc \in {"idle", "returned"}

\* the arguments callers pass
StepArgs ==
    IF mode.wide THEN Blocks \X Offs \X Sizes
    ELSE {0, 1} \X {0} \X {info.prog_size, info.erase_size}

\* whether the file store call of a step fails
FaultChoices == IF mode.faulty THEN BOOLEAN ELSE {FALSE}

CounterOf(op) == IF op = "read" THEN "read_count"
                 ELSE IF op = "prog" THEN "prog_count"
                 ELSE "erase_count"

\* size -= count on lfs_size_t
Sub32(a, b) == (a - b) % Word32

\* block += 1 on lfs_block_t
Inc32(a) == (a + 1) % Word32

\* variant of NextOff: the offset is not reset at the end of an iteration
NextOffKeep(off) == off

\* off = 0
NextOff(off) == 0

\* the end of one iteration of a walk
Advance(c) ==
    [c EXCEPT !.size = Sub32(c.size, c.count), !.pos = c.pos + c.count,
              !.block = Inc32(c.block), !.off = NextOff(c.off),
              !.f = <<>>, !.pc = "loop"]

\* return -errno after file store call `call` failed
Fail(c, call, e) == [c EXCEPT !.pc = "done", !.ret = -e, !.fault = call]

\* a file store call that names its file through emu->path
FsCall(t, call) ==
    lastfs' = [t |-> t, call |-> call, name |-> child, own |-> th[t].own]

\* the history of whole calls, and the handle's geometry
hvars == <<info, handle, dir, last, pre, written, synced, loaded, oks, nio,
           nsync>>

\* entry of read, prog or erase: the validation, and read's memset
StartCall(t) ==
    /\ th[t].pc = "idle"
    /\ CanStart(t)
    /\ \E op \in IoOps, a \in StepArgs :
         LET c == [IdleThread EXCEPT
                     !.op = op, !.block = a[1], !.off = a[2], !.size = a[3],
                     !.arg = [block |-> a[1], off |-> a[2], size |-> a[3]],
                     !.stats0 = stats, !.open0 = nopen,
                     !.data = IF op = "prog" THEN Data(a[3]) ELSE <<>>]
         IN  IF Valid(info, Gran(op), a[1], a[2], a[3])
             THEN th' = [th EXCEPT ![t] =
                           [c EXCEPT !.pc = "loop",
                                     !.buf = IF op = "read" THEN ZeroBuf(a[3])
                                             ELSE <<>>]]
             ELSE th' = [th EXCEPT ![t] =
                           [c EXCEPT !.pc = "done", !.ret = -EINVAL]]
    /\ UNCHANGED <<child, nopen, lastfs, mode, stats, disk>>
    /\ UNCHANGED hvars

\* while (size > 0): the snprintf of the child name and the count, or the
\* counter increment and return 0
Loop(t) ==
    LET c == th[t]
    IN  /\ c.pc = "loop"
        /\ IF c.size = 0
           THEN /\ stats' = Bump(stats, CounterOf(c.op))
                /\ th' = [th EXCEPT ![t] = [c EXCEPT !.pc = "done", !.ret = 0]]
                /\ child' = child
           ELSE /\ child' = Hex(c.block)
                /\ th' = [th EXCEPT ![t] =
                            [c EXCEPT
                               !.own = Hex(c.block),
                               !.count = IF c.op = "erase" THEN info.erase_size
                                         ELSE WalkCount(info.erase_size, c.off,
                                                        c.size),
                               !.pc = IF c.op = "erase" THEN "stat" ELSE "open"]]
                /\ stats' = stats
        /\ UNCHANGED <<nopen, lastfs, mode, disk>>
        /\ UNCHANGED hvars

\* fopen(emu->path, "rb") of read, fopen(emu->path, "r+b") of prog.  read
\* returns on a failure other than ENOENT; prog goes on with f == NULL
Open(t) ==
    LET c == th[t]
    IN  /\ c.pc = "open"
        /\ FsCall(t, "fopen")
        /\ \E bad \in FaultChoices :
             IF bad
             THEN /\ th' = [th EXCEPT ![t] =
                              IF c.op = "read" THEN Fail(c, "fopen", EIO)
                              ELSE [c EXCEPT !.f = <<>>, !.fault = "fopen",
                                             !.pc = "seek"]]
                  /\ nopen' = nopen
             ELSE IF child \in DOMAIN disk
             THEN /\ th' = [th EXCEPT ![t] = [c EXCEPT !.f = child, !.pc = "seek"]]
                  /\ nopen' = nopen + 1
             ELSE /\ th' = [th EXCEPT ![t] =
                              IF c.op = "read" THEN Advance(c)
                              ELSE [c EXCEPT !.pc = "create"]]
                  /\ nopen' = nopen
        /\ UNCHANGED <<child, mode, stats, disk>>
        /\ UNCHANGED hvars

\* fopen(emu->path, "w+b") of prog after ENOENT
OpenNew(t) ==
    LET c == th[t]
    IN  /\ c.pc = "create"
        /\ FsCall(t, "fopen")
        /\ \E bad \in FaultChoices :
             IF bad
             THEN /\ th' = [th EXCEPT ![t] = Fail(c, "fopen", EIO)]
                  /\ UNCHANGED <<disk, nopen>>
             ELSE /\ th' = [th EXCEPT ![t] = [c EXCEPT !.f = child, !.pc = "seek"]]
                  /\ disk' = Put(disk, child, <<>>)
                  /\ nopen' = nopen + 1
        /\ UNCHANGED <<child, mode, stats>>
        /\ UNCHANGED hvars

\* fseek(f, off, SEEK_SET).  With f == NULL the behaviour is undefined: the
\* call crashes the program or comes back with an error
Seek(t) ==
    LET c == th[t]
    IN  /\ c.pc = "seek"
        /\ IF c.f = <<>>
           THEN \E crash \in BOOLEAN :
                  th' = [th EXCEPT ![t] =
                           IF crash THEN [c EXCEPT !.null = TRUE, !.pc = "crashed"]
                           ELSE [c EXCEPT !.null = TRUE, !.pc = "done",
                                          !.ret = -EIO]]
           ELSE \E bad \in FaultChoices :
                  th' = [th EXCEPT ![t] =
                           IF bad THEN Fail(c, "fseek", EIO)
                           ELSE [c EXCEPT !.pc = "io"]]
        /\ UNCHANGED <<child, nopen, lastfs, mode, stats, disk>>
        /\ UNCHANGED hvars

\* fread(data, 1, count, f) of read, fwrite(data, 1, count, f) of prog.  A
\* file removed since the fopen is no longer reachable by its name
Io(t) ==
    LET c == th[t]
        file == IF c.f \in DOMAIN disk THEN disk[c.f] ELSE <<>>
    IN  /\ c.pc = "io"
        /\ \E bad \in FaultChoices :
             IF bad
             THEN /\ th' = [th EXCEPT ![t] =
                              Fail(c, IF c.op = "read" THEN "fread" ELSE "fwrite",
                                   EIO)]
                  /\ disk' = disk
             ELSE IF c.op = "read"
             THEN /\ th' = [th EXCEPT ![t] =
                              [c EXCEPT
                                 !.buf = Store(c.buf, c.pos,
                                               FileRead(file, c.off, c.count)),
                                 !.pc = "close"]]
                  /\ disk' = disk
             ELSE /\ th' = [th EXCEPT ![t] = [c EXCEPT !.pc = "close"]]
                  /\ disk' = IF c.f \in DOMAIN disk
                             THEN Put(disk, c.f,
                                      FileWrite(file, c.off,
                                                SubSeq(c.data, c.pos + 1,
                                                       c.pos + c.count)))
                             ELSE disk
        /\ UNCHANGED <<child, nopen, lastfs, mode, stats>>
        /\ UNCHANGED hvars

\* fclose(f): the stream is gone whether or not the call succeeds
Close(t) ==
    LET c == th[t]
    IN  /\ c.pc = "close"
        /\ nopen' = nopen - 1
        /\ \E bad \in FaultChoices :
             th' = [th EXCEPT ![t] =
                      IF bad THEN Fail(c, "fclose", EIO) ELSE Advance(c)]
        /\ UNCHANGED <<child, lastfs, mode, stats, disk>>
        /\ UNCHANGED hvars

\* stat(emu->path, &st) of erase
Stat(t) ==
    LET c == th[t]
    IN  /\ c.pc = "stat"
        /\ FsCall(t, "stat")
        /\ \E bad \in FaultChoices :
             th' = [th EXCEPT ![t] =
                      IF bad THEN Fail(c, "stat", EIO)
                      ELSE IF child \in DOMAIN disk
                      THEN [c EXCEPT !.pc = "unlink"]
                      ELSE Advance(c)]
        /\ UNCHANGED <<child, nopen, mode, stats, disk>>
        /\ UNCHANGED hvars

\* unlink(emu->path) of erase
Remove(t) ==
    LET c == th[t]
    IN  /\ c.pc = "unlink"
        /\ FsCall(t, "unlink")
        /\ \E bad \in FaultChoices :
             IF bad
             THEN /\ th' = [th EXCEPT ![t] = Fail(c, "unlink", EIO)]
                  /\ disk' = disk
             ELSE IF child \in DOMAIN disk
             THEN /\ th' = [th EXCEPT ![t] = Advance(c)]
                  /\ disk' = Unlink(disk, child)
             ELSE /\ th' = [th EXCEPT ![t] = Fail(c, "unlink", ENOENT)]
                  /\ disk' = disk
        /\ UNCHANGED <<child, nopen, mode, stats>>
        /\ UNCHANGED hvars

\* the caller takes the result; the locals of the call are gone
Finish(t) ==
    /\ th[t].pc = "done"
    /\ th' = [th EXCEPT ![t] = [IdleThread EXCEPT !.pc = "returned"]]
    /\ UNCHANGED <<child, nopen, lastfs, mode, stats, disk>>
    /\ UNCHANGED hvars

\* the steps inside a call
Walk(t) ==
    \/ Loop(t) \/ Open(t) \/ OpenNew(t) \/ Seek(t) \/ Io(t) \/ Close(t)
    \/ Stat(t) \/ Remove(t)

StepNext ==
    \E t \in Threads :
        \/ StartCall(t)
        \/ Loop(t)
        \/ Open(t)
        \/ OpenNew(t)
        \/ Seek(t)
        \/ Io(t)
        \/ Close(t)
        \/ Stat(t)
        \/ Remove(t)
        \/ Finish(t)

\* the base directory of an open handle: the stats record alone, or with the
\* artifacts of a full block 0 and a short block 1
StepDisks ==
    { (StatsName :> <<3, 1, 2>>),
      (StatsName :> <<3, 1, 2>>) @@ (Hex(0) :> Data(LFS_EMUBD_ERASE_SIZE))
         @@ (Hex(1) :> Data(LFS_EMUBD_PROG_SIZE)) }

\* the state a successful create leaves
OpenHandle ==
    /\ info = ConfigInfo
    /\ disk \in StepDisks
    /\ stats = StatsLoad(disk[StatsName], ZeroStats)
    /\ handle = "open"
    /\ dir = TRUE
    /\ last = NoCall
    /\ pre = NoSnapshot
    /\ written = {}
    /\ synced = NoSync
    /\ loaded = stats
    /\ oks = ZeroStats
    /\ nio = 0
    /\ nsync = 0
    /\ child = StatsName
    /\ th = [t \in Threads |-> IdleThread]
    /\ nopen = 0
    /\ lastfs = NoFsCall

StepInit == OpenHandle /\ mode = FaultyStore

StepSpec == StepInit /\ [][StepNext]_vars

FairInit == OpenHandle /\ mode = WholeCalls

\* a call in progress keeps running: no step of a walk waits for anything
\* but the return of a file store call
FairSpec ==
    FairInit /\ [][StepNext]_vars /\ \A t \in Threads : WF_vars(Walk(t))

RaceInit == OpenHandle /\ mode \in RaceModes

RaceSpec == RaceInit /\ [][StepNext]_vars

\* C11: when a file store call fails during a prog that passed validation
\* (open for another reason than a missing artifact, create, seek, write or
\* close), the call does not use the failed handle and returns a negative
\* error value with prog_count as it was.
C11_ProgSurfacesFailure ==
    \A t \in Threads :
        (th[t].op = "prog" /\ th[t].fault # "none")
        => /\ ~th[t].null
           /\ th[t].pc # "crashed"
           /\ th[t].pc = "done"
              => (th[t].ret < 0 /\ stats.prog_count = th[t].stats0.prog_count)

\* C12: read closes every handle it opened on every exit path: when a read
\* returns, as many handles are open as when it was called.
C12_ReadClosesHandles ==
    \A t \in Threads :
        (th[t].op = "read" /\ th[t].pc = "done") => nopen = th[t].open0

\* C17: every walk ends.  The remaining size never exceeds the size the call
\* was given (the subtraction never wraps), and a call that entered its loop
\* reaches its return, also for off = erase_size, off > erase_size and
\* size = 0.
C17_WalksTerminate ==
    /\ [](\A t \in Threads : th[t].size <= th[t].arg.size)
    /\ \A t \in Threads : (th[t].pc = "loop") ~> (th[t].pc = "done")

\* a prog with off > erase_size has ended after a read whose first step
\* took zero bytes returned
C17_Witness ==
    /\ th[1].pc = "returned"
    /\ stats.read_count = loaded.read_count + 1
    /\ th[2].pc = "done" /\ th[2].ret = 0 /\ th[2].op = "prog"
    /\ th[2].arg.off > info.erase_size /\ th[2].arg.size > 0
    /\ th[2].size = 0

\* C19: while calls on the handle are serialized, every file store call
\* that takes the path buffer finds in it the child name its own operation
\* wrote.  (Without serialization a call reaches a file store call with the
\* other call's child name in the buffer: the state of C19_Witness.)
C19_PathBufferRace ==
    mode.serialized => lastfs.name = lastfs.own

\* not serialized: the erase of block 0 by caller 1 has just deleted the
\* artifact of block 1, the name caller 2 put in the buffer for its prog
C19_Witness ==
    /\ ~mode.serialized
    /\ lastfs = [t |-> 1, call |-> "unlink", name |-> Hex(1), own |-> Hex(0)]
    /\ th[1].op = "erase" /\ th[1].arg.block = 0
    /\ th[2].op = "prog" /\ th[2].own = Hex(1) /\ th[2].pc = "open"
    /\ Hex(0) \in DOMAIN disk
    /\ Hex(1) \notin DOMAIN disk

====
